---- MODULE Spec2Model ----
(***************************************************************************)
(* Model of streamlit_app_bank.py: a Streamlit script that is executed top *)
(* to bottom once when the session starts and once more after every widget *)
(* change.  One execution reads the CSV file, reads the widgets, filters   *)
(* the frame, and renders metrics, an insight block and four tabs.         *)
(***************************************************************************)
EXTENDS Integers, Sequences, FiniteSets, TLC

\* ------------------------------------------------------------------ bounds
\* Largest number of data rows of the CSV file.
MaxLen == 3
\* Largest number of data rows of a file that has the month column.
MaxLenMonth == 2

\* st.dataframe(filtered.head(15))
PreviewRows == 15

\* Values a cell of the file can hold.  JobOrder lists the job names in
\* lexicographic order: Python compares the strings, the model their position.
\* The ages are 0 and 1 so that a column of them can also be read as bool.
AgeValues == {0, 1}
JobOrder == <<"admin", "technician">>
MonthValues == {"jun", "may"}
LabelValues == {"no", "yes"}

JobValues == {JobOrder[i] : i \in 1..Len(JobOrder)}
Rank(j) == CHOOSE i \in 1..Len(JobOrder) : JobOrder[i] = j

\* Python values.  Every one is a record, so that any two of them compare.
None == [none |-> TRUE]
Some(v) == [value |-> v]
NaN == [nan |-> TRUE]
Float(n, d) == [num |-> n, den |-> d]
NotRun == [notrun |-> TRUE]

VARIABLES
    csv,               \* the file "bank-additional-full copy.csv" (never written)
    df,                \* the frame read from csv by the last execution
    age_range,         \* value of the age slider, <<lo, hi>>
    selected_jobs,     \* value of the job multiselect
    selected_months,   \* Some(value of the month multiselect), or None
    sort_type,         \* value of the radio, "" while it was never rendered
    filtered,          \* rows of the filtered frame (its columns are df.columns)
    metric,            \* the three st.metric values
    avg_age,
    top_job,
    subscription_rate,
    insight,           \* "rendered", or "TypeError" when the f-string raised
    charts,            \* pie, preview and histogram, NotRun when not reached
    job_counts,        \* Some(rows handed to px.bar), NotRun when not reached
    corr,              \* "heatmap", "warning", "" when not reached
    first,             \* history: what the first execution published
    changed            \* history: a widget was changed since the session started

vars == <<csv, df, age_range, selected_jobs, selected_months, sort_type, filtered,
          metric, avg_age, top_job, subscription_rate, insight, charts,
          job_counts, corr, first, changed>>

\* --------------------------------------------------------------- helpers
RECURSIVE SumAge(_)
SumAge(rows) == IF rows = << >> THEN 0 ELSE Head(rows).age + SumAge(Tail(rows))

Range(s) == {s[i] : i \in 1..Len(s)}
SetMin(S) == CHOOSE x \in S : \A y \in S : x <= y
SetMax(S) == CHOOSE x \in S : \A y \in S : x >= y
JobsIn(rows) == {rows[i].job : i \in 1..Len(rows)}
JobCount(rows, j) == Cardinality({i \in 1..Len(rows) : rows[i].job = j})

\* ------------------------------------------------------------- Load Data
\* Rows a file with the given columns can hold.
RowSet(cols) ==
    IF "month" \in cols /\ "y" \in cols
    THEN [age : AgeValues, job : JobValues, month : MonthValues, y : LabelValues]
    ELSE IF "month" \in cols
    THEN [age : AgeValues, job : JobValues, month : MonthValues]
    ELSE IF "y" \in cols
    THEN [age : AgeValues, job : JobValues, y : LabelValues]
    ELSE [age : AgeValues, job : JobValues]

\* pd.read_csv and the strip of the column names: the frame holds the file's
\* rows in the file's order.  numeric is the set of columns select_dtypes
\* counts as numbers: age is one unless read_csv inferred bool for it.
ReadCsv(file) ==
    [columns |-> file.header,
     numeric |-> IF file.age_dtype = "int64" THEN {"age"} ELSE {},
     rows    |-> file.lines]

\* ------------------------------------------------------- Sidebar Filters
min_age(d) == SetMin({d.rows[i].age : i \in 1..Len(d.rows)})
max_age(d) == SetMax({d.rows[i].age : i \in 1..Len(d.rows)})
job_options(d) == {d.rows[i].job : i \in 1..Len(d.rows)}
month_options(d) == {d.rows[i].month : i \in 1..Len(d.rows)}
SliderValues(d) == {r \in (min_age(d)..max_age(d)) \X (min_age(d)..max_age(d)) : r[1] <= r[2]}
DefaultMonths(d) == IF "month" \in d.columns THEN Some(month_options(d)) ELSE None

\* --------------------------------------------------------- Apply Filters
\* The age test with the lower bound left out of the range.
AgeMaskExclusive(r, ar) == r.age > ar[1] /\ r.age <= ar[2]
AgeMask(r, ar) == r.age >= ar[1] /\ r.age <= ar[2]
\* The job test that takes an empty selection for "no filter".
JobMaskAllWhenEmpty(r, sj) == sj = {} \/ r.job \in sj
JobMask(r, sj) == r.job \in sj
MonthMask(r, months) == r.month \in months

ApplyFilters(d, ar, sj, sm) ==
    LET byAgeJob == SelectSeq(d.rows, LAMBDA r : AgeMask(r, ar) /\ JobMask(r, sj))
    IN  IF sm # None
        THEN SelectSeq(byAgeJob, LAMBDA r : MonthMask(r, sm.value))
        ELSE byAgeJob

\* -------------------------------------------------------- Metric Summary
\* The summary whose total counts the filtered rows.
MetricSummaryOfView(d, f, sj) ==
    [total |-> Len(f), filtered |-> Len(f), jobs |-> Cardinality(sj)]
MetricSummary(d, f, sj) ==
    [total |-> Len(d.rows), filtered |-> Len(f), jobs |-> Cardinality(sj)]

\* ---------------------------------------------------- Insight Highlights
\* Series.mean(): not-a-number over no rows.
Mean(rows) == IF rows = << >> THEN NaN ELSE Float(SumAge(rows), Len(rows))

\* The first job of the view in sorted order, whatever its frequency.
LeastJob(rows) == CHOOSE j \in JobsIn(rows) : \A k \in JobsIn(rows) : Rank(j) <= Rank(k)

\* Series.mode() lists the most frequent values in sorted order; [0] is the
\* least of them.
Mode0(rows) ==
    LET best == {j \in JobsIn(rows) : \A k \in JobsIn(rows) : JobCount(rows, j) >= JobCount(rows, k)}
    IN  CHOOSE j \in best : \A k \in best : Rank(j) <= Rank(k)

TopJob(rows) == IF rows # << >> THEN Mode0(rows) ELSE "N/A"

\* value_counts() without normalize: the number of rows of each label.
ValueCountsRaw(rows) ==
    [l \in {rows[i].y : i \in 1..Len(rows)} |->
        Float(Cardinality({i \in 1..Len(rows) : rows[i].y = l}), 1)]

\* value_counts(normalize=True): the share of each label that occurs.
ValueCountsNormalized(rows) ==
    [l \in {rows[i].y : i \in 1..Len(rows)} |->
        Float(Cardinality({i \in 1..Len(rows) : rows[i].y = l}), Len(rows))]

Get(series, key, default) == IF key \in DOMAIN series THEN series[key] ELSE default
Times(q, n) == Float(q.num * n, q.den)

SubscriptionRate(cols, rows) ==
    IF "y" \in cols
    THEN Times(Get(ValueCountsNormalized(rows), "yes", Float(0, 1)), 100)
    ELSE None

\* The f-string of st.info: format(x, ".1f") and format(x, ".2f") take a
\* float (not-a-number included) and raise TypeError on None.
FormatRaises(x) == x = None
InsightBlock(avg, top, rate) ==
    IF FormatRaises(avg) \/ FormatRaises(rate) THEN "TypeError" ELSE "rendered"

\* ------------------------------------------------- Overview, Data Sample
\* What the script hands to plotly and to st.dataframe; the counting per slice
\* and the binning of the ages are plotly's.
Column(rows, c) == [i \in 1..Len(rows) |-> rows[i][c]]
Pie(rows) == Column(rows, "job")
Preview(rows) == SubSeq(rows, 1, IF Len(rows) < PreviewRows THEN Len(rows) ELSE PreviewRows)
Histogram(rows) == [i \in 1..Len(rows) |-> <<rows[i].age, rows[i].job>>]
Charts(rows) == [pie |-> Pie(rows), preview |-> Preview(rows), histogram |-> Histogram(rows)]

\* ------------------------------------------------------------ Job Counts
\* The jobs of the view in the order of their first occurrence.
RECURSIVE FirstSeen(_)
FirstSeen(rows) ==
    IF rows = << >> THEN << >>
    ELSE LET before == FirstSeen(SubSeq(rows, 1, Len(rows) - 1))
             last   == rows[Len(rows)].job
         IN  IF last \in Range(before) THEN before ELSE Append(before, last)

\* The place of row i of jc once jc is sorted by count, largest first, rows of
\* equal count staying in the order they had.
PlaceDescending(jc, i) ==
    1 + Cardinality({k \in 1..Len(jc) :
            jc[k].count > jc[i].count \/ (jc[k].count = jc[i].count /\ k < i)})
PlaceAscending(jc, i) ==
    1 + Cardinality({k \in 1..Len(jc) :
            jc[k].count < jc[i].count \/ (jc[k].count = jc[i].count /\ k < i)})

\* sort_values("count") with the default ascending order.
SortValuesAscending(jc) ==
    [p \in 1..Len(jc) |-> jc[CHOOSE i \in 1..Len(jc) : PlaceAscending(jc, i) = p]]

\* sort_values("count", ascending=False)
SortValues(jc) ==
    [p \in 1..Len(jc) |-> jc[CHOOSE i \in 1..Len(jc) : PlaceDescending(jc, i) = p]]

\* value_counts().reset_index(): one row per job that occurs, most frequent
\* first, jobs of equal frequency in the order of their first occurrence.
ValueCounts(rows) ==
    LET jobs == FirstSeen(rows)
    IN  SortValues([i \in 1..Len(jobs) |-> [job |-> jobs[i], count |-> JobCount(rows, jobs[i])]])

JobCounts(rows, sort) ==
    IF sort = "Most Common" THEN SortValues(ValueCounts(rows)) ELSE ValueCounts(rows)

\* ------------------------------------------------------- Correlation Tab
\* DataFrame.empty: no column or no row.
NumericColsEmpty(d, rows) == d.numeric = {} \/ rows = << >>
Correlation(d, rows) == IF NumericColsEmpty(d, rows) THEN "warning" ELSE "heatmap"

\* ------------------------------------------------------ one execution
\* Everything one execution of the script computes and publishes, for the
\* widget values given.  An exception in the insight block ends the
\* execution: the tabs, the radio among them, are not rendered.
Execution(file, ar, sj, sm, sort) ==
    LET d    == ReadCsv(file)
        f    == ApplyFilters(d, ar, sj, sm)
        avg  == Mean(f)
        top  == TopJob(f)
        rate == SubscriptionRate(d.columns, f)
        info == InsightBlock(avg, top, rate)
        top3 == [df |-> d, filtered |-> f, metric |-> MetricSummary(d, f, sj),
                 avg_age |-> avg, top_job |-> top, subscription_rate |-> rate,
                 insight |-> info]
    IN  IF info = "TypeError"
        THEN top3 @@ [sort_type |-> "", charts |-> NotRun, job_counts |-> NotRun, corr |-> ""]
        ELSE top3 @@ [sort_type |-> sort, charts |-> Charts(f),
                      job_counts |-> Some(JobCounts(f, sort)), corr |-> Correlation(d, f)]

\* ------------------------------------------------------------- the files
\* The files the model starts from.  Every file has the columns age and job
\* and at least one row (int(df['age'].min()) fails on an empty frame, before
\* anything is shown).  month and y are optional.  read_csv gives a column
\* of True/False the dtype bool, which select_dtypes does not count as a
\* number; the model has such a file with the label column.  The files with
\* the month column are taken up to MaxLenMonth rows: the month multiselect
\* multiplies the widget values they can be viewed under.
Shapes ==
    {[header |-> {"age", "job"},               age_dtype |-> "int64", rows |-> MaxLen],
     [header |-> {"age", "job", "month"},      age_dtype |-> "int64", rows |-> MaxLenMonth],
     [header |-> {"age", "job", "y"},          age_dtype |-> "int64", rows |-> MaxLen],
     [header |-> {"age", "job", "y"},          age_dtype |-> "bool",  rows |-> MaxLen],
     [header |-> {"age", "job", "month", "y"}, age_dtype |-> "int64", rows |-> MaxLenMonth]}

FilesOf(shape) ==
    {[header |-> shape.header, age_dtype |-> shape.age_dtype, lines |-> l] :
        l \in UNION {[1..n -> RowSet(shape.header)] : n \in 1..shape.rows}}

Files == UNION {FilesOf(shape) : shape \in Shapes}

\* The session starts: the script ran once with every widget at its default.
Init ==
    /\ csv \in Files
    /\ age_range = <<min_age(ReadCsv(csv)), max_age(ReadCsv(csv))>>
    /\ selected_jobs = job_options(ReadCsv(csv))
    /\ selected_months = DefaultMonths(ReadCsv(csv))
    /\ \E e \in {Execution(csv, age_range, selected_jobs, selected_months, "Alphabetical")} :
        /\ df = e.df
        /\ sort_type = e.sort_type
        /\ filtered = e.filtered
        /\ metric = e.metric
        /\ avg_age = e.avg_age
        /\ top_job = e.top_job
        /\ subscription_rate = e.subscription_rate
        /\ insight = e.insight
        /\ charts = e.charts
        /\ job_counts = e.job_counts
        /\ corr = e.corr
        /\ first = e
    /\ changed = FALSE

\* A widget changed: the script runs again with the widgets' new values.
Rerun(ar, sj, sm, sort) ==
    /\ age_range' = ar
    /\ selected_jobs' = sj
    /\ selected_months' = sm
    /\ \E e \in {Execution(csv, ar, sj, sm, IF sort = "" THEN "Alphabetical" ELSE sort)} :
        /\ df' = e.df
        /\ sort_type' = e.sort_type
        /\ filtered' = e.filtered
        /\ metric' = e.metric
        /\ avg_age' = e.avg_age
        /\ top_job' = e.top_job
        /\ subscription_rate' = e.subscription_rate
        /\ insight' = e.insight
        /\ charts' = e.charts
        /\ job_counts' = e.job_counts
        /\ corr' = e.corr
    /\ changed' = TRUE
    /\ UNCHANGED <<csv, first>>

SlideAge ==
    \E r \in SliderValues(df) :
        /\ r # age_range
        /\ Rerun(r, selected_jobs, selected_months, sort_type)

SelectJobs ==
    \E s \in SUBSET job_options(df) :
        /\ s # selected_jobs
        /\ Rerun(age_range, s, selected_months, sort_type)

SelectMonths ==
    /\ "month" \in df.columns
    /\ \E s \in SUBSET month_options(df) :
        /\ Some(s) # selected_months
        /\ Rerun(age_range, selected_jobs, Some(s), sort_type)

ChooseSort ==
    /\ sort_type # ""
    /\ \E s \in {"Alphabetical", "Most Common"} :
        /\ s # sort_type
        /\ Rerun(age_range, selected_jobs, selected_months, s)

Next == SlideAge \/ SelectJobs \/ SelectMonths \/ ChooseSort

Spec == Init /\ [][Next]_vars

\* ================================================================ claims
\* The filter criteria as the widgets hold them, read off a row of the file.
InAgeRange(r) == age_range[1] <= r.age /\ r.age <= age_range[2]
JobSelected(r) == r.job \in selected_jobs
MonthSelected(r) == selected_months = None \/ r.month \in selected_months.value
Included == {i \in 1..Len(df.rows) : InAgeRange(df.rows[i]) /\ JobSelected(df.rows[i]) /\ MonthSelected(df.rows[i])}
\* The k-th index of Included, counted upwards.
NthIncluded(k) == CHOOSE i \in Included : Cardinality({j \in Included : j < i}) = k - 1
Occurrences(j) == Cardinality({i \in 1..Len(filtered) : filtered[i].job = j})
YesCount == Cardinality({i \in 1..Len(filtered) : filtered[i].y = "yes"})
DefaultCriteria ==
    /\ age_range = <<min_age(df), max_age(df)>>
    /\ selected_jobs = job_options(df)
    /\ selected_months = DefaultMonths(df)
    /\ sort_type \in {"", "Alphabetical"}

\* C1: the filtered view holds a row of the dataset iff its age lies in the
\* closed age range, its job is selected and, when there is a month selection,
\* its month is selected; the rows keep the dataset's order, so the view is no
\* longer than the dataset.
C1_FilterExact ==
    /\ Len(filtered) = Cardinality(Included)
    /\ \A k \in 1..Len(filtered) : filtered[k] = df.rows[NthIncluded(k)]
    /\ Len(filtered) <= Len(df.rows)

\* C1 witness: a two-row file with months; one row is kept with its age on a
\* bound of the range, the other passes the age and job tests and is dropped
\* for its month alone.
C1_Witness ==
    /\ selected_months # None
    /\ Len(df.rows) = 2
    /\ Len(filtered) = 1
    /\ filtered[1].age = age_range[1]
    /\ filtered[1].age = age_range[2]
    /\ \E i \in 1..Len(df.rows) :
        InAgeRange(df.rows[i]) /\ JobSelected(df.rows[i]) /\ ~MonthSelected(df.rows[i])

\* C2: every execution runs to its end: the insight block is rendered and the
\* correlation tab shows a heatmap or the warning, for every file (with or
\* without y) and every widget value; without y the rate is None.
C2_RunsToCompletion ==
    /\ insight = "rendered"
    /\ corr \in {"heatmap", "warning"}
    /\ "y" \notin df.columns => subscription_rate = None

\* C3: with the label column and an empty view the subscription rate is a
\* sentinel (not-a-number or None), not a number.
C3_EmptyViewRateIsSentinel ==
    ("y" \in df.columns /\ filtered = << >>) => subscription_rate \in {NaN, None}

\* C4: with the radio on Alphabetical the rows handed to the bar chart are in
\* non-decreasing lexicographic order of the job name.
C4_AlphabeticalOrder ==
    (sort_type = "Alphabetical" /\ job_counts # NotRun) =>
        \A i \in 1..(Len(job_counts.value) - 1) :
            Rank(job_counts.value[i].job) <= Rank(job_counts.value[i + 1].job)

\* C5: with the radio on Most Common the rows handed to the bar chart are
\* non-increasing in count, name exactly the jobs of the view, each once and
\* with its number of occurrences, so the counts add up to the view's length.
C5_MostCommonOrder ==
    (sort_type = "Most Common" /\ job_counts # NotRun) =>
        LET jc == job_counts.value
        IN  /\ \A i \in 1..(Len(jc) - 1) : jc[i].count >= jc[i + 1].count
            /\ {jc[i].job : i \in 1..Len(jc)} = {filtered[i].job : i \in 1..Len(filtered)}
            /\ \A i, k \in 1..Len(jc) : jc[i].job = jc[k].job => i = k
            /\ \A i \in 1..Len(jc) : jc[i].count = Occurrences(jc[i].job) /\ jc[i].count >= 1
            /\ Len(filtered) = Cardinality({<<i, n>> \in (1..Len(jc)) \X (1..Len(filtered)) : n <= jc[i].count})

\* C5 witness: Most Common is chosen and the view has two jobs of different
\* frequency.
C5_Witness ==
    /\ sort_type = "Most Common"
    /\ job_counts # NotRun
    /\ Len(job_counts.value) = 2
    /\ job_counts.value[1].count > job_counts.value[2].count

\* C6: top_job is "N/A" exactly when the view is empty; otherwise it is a job
\* of the view that no other job of the view outnumbers.
C6_TopJob ==
    /\ top_job = "N/A" <=> filtered = << >>
    /\ filtered # << >> =>
        /\ \E i \in 1..Len(filtered) : filtered[i].job = top_job
        /\ \A i \in 1..Len(filtered) : Occurrences(top_job) >= Occurrences(filtered[i].job)

\* C6 witness: the insight block is rendered and the most frequent job of the
\* view is not the first in lexicographic order.
C6_Witness ==
    /\ insight = "rendered"
    /\ Len(filtered) = MaxLen
    /\ Occurrences(JobOrder[2]) > Occurrences(JobOrder[1])
    /\ Occurrences(JobOrder[1]) > 0
    /\ top_job = JobOrder[2]

\* C7: with the label column and a view that is not empty, the rate times the
\* view's length is 100 times the number of "yes" rows; it lies in [0, 100].
C7_SubscriptionRate ==
    ("y" \in df.columns /\ filtered # << >>) =>
        /\ DOMAIN subscription_rate = {"num", "den"}
        /\ subscription_rate.den > 0
        /\ subscription_rate.num * Len(filtered) = 100 * YesCount * subscription_rate.den
        /\ 0 <= subscription_rate.num
        /\ subscription_rate.num <= 100 * subscription_rate.den
        /\ YesCount = 0 => subscription_rate.num = 0

\* C7 witness: three rows in the view, two of them labelled "yes": the rate is
\* two thirds of 100.
C7_Witness ==
    /\ "y" \in df.columns
    /\ Len(filtered) = 3
    /\ YesCount = 2
    /\ 3 * subscription_rate.num = 200 * subscription_rate.den

\* C8: with no job selected, or with the month column and no month selected,
\* the view is empty whatever the age range; the filtered metric shows 0 and
\* the total metric the number of rows of the dataset.
C8_EmptySelection ==
    (selected_jobs = {} \/ ("month" \in df.columns /\ selected_months = Some({}))) =>
        /\ filtered = << >>
        /\ metric.filtered = 0
        /\ metric.total = Len(csv.lines)

\* C8 witness: no job is selected over a file of several rows, all of them
\* within the age range.
C8_Witness ==
    /\ selected_jobs = {}
    /\ Len(csv.lines) > 1
    /\ \A i \in 1..Len(df.rows) : InAgeRange(df.rows[i])
    /\ metric.filtered = 0

\* C9: every execution ends its correlation step with exactly one of the two
\* outcomes, the heatmap or the warning; a view without numeric columns gives
\* the warning.
C9_HeatmapOrWarning ==
    /\ corr \in {"heatmap", "warning"}
    /\ df.numeric = {} => corr = "warning"

====
